---- MODULE Spec2Model ----
(***************************************************************************)
(* Nexus AI v2.0: a model of the media request client (editImage,          *)
(* generateVideo), the image history of ImageGenerator / ImageEditor, the  *)
(* persona registry (usePersonas) and the chat session of Chatbot.         *)
(*                                                                         *)
(* Text is a sequence of tokens, so that concatenation is \o and the empty *)
(* string is << >>.  A nullable value (T | null) is a sequence of length   *)
(* at most one: None is null, Some(v) is the value v.                      *)
(*                                                                         *)
(* Every async function is cut at its awaits: one action is the code that  *)
(* runs, on the single JavaScript thread, from one resumption to the next  *)
(* suspension.                                                             *)
(***************************************************************************)
EXTENDS Naturals, Sequences, FiniteSets, TLC

VARIABLES
    \* ---- editImage (services/geminiService) ----
    editResponse,     \* the response of ai.models.generateContent, or "none"
    editOutcome,      \* what editImage returned or threw for it
    \* ---- VideoCreator + generateVideo ----
    vPrompt,          \* VideoCreator state: prompt
    vLoading,         \* VideoCreator state: loading
    vLoadingMessage,  \* VideoCreator state: index of loadingMessage
    vError,           \* VideoCreator state: error (nullable)
    vUrl,             \* VideoCreator state: videoUrl (nullable)
    vpc,              \* where generateVideo is suspended
    vOperation,       \* generateVideo local: operation
    vMessageIndex,    \* handleGenerate local: messageIndex
    vProgressCalls,   \* number of onProgress calls of the current generateVideo
    vPolls,           \* number of getVideosOperation results of the current call
    vResponse,        \* generateVideo local: how the fetch of the video settled
    \* ---- ImageGenerator / ImageEditor: result and history ----
    hComp,            \* which component is mounted: "generator" or "editor"
    hPrompt,          \* state: prompt
    hOriginal,        \* ImageEditor state: originalImage (nullable)
    hUploading,       \* handleImageUpload is awaiting fileToDataUrl
    hLoading,         \* state: loading
    hError,           \* state: error (nullable)
    hResult,          \* state: imageUrl / editedImage (nullable)
    hResponseText,    \* ImageEditor state: responseText (nullable)
    hHistory,         \* state: history, newest first
    hStore,           \* localStorage value of the component's history key
    hpc,              \* "mount", "idle" or "awaiting" (handleGenerate suspended)
    hClosure,         \* what the suspended handleGenerate closed over
    hNow,             \* the last value Date.now() gave to a record id
    hGenerated,       \* ids of the successful generations so far, newest first
    hClearedIds,      \* ids of the records cleared by handleClearHistory
    \* ---- usePersonas ----
    personas,         \* hook state: Record<string, Persona>
    pStore,           \* localStorage value of 'nexus-custom-personas'
    pMounted,         \* the hook's load effect has run
    pCall,            \* the last call of savePersona / deletePersona and its id
    \* ---- Chatbot ----
    selectedPersonaId, \* state: selectedPersonaId
    sStore,           \* localStorage value of 'selectedPersonaId' (nullable)
    pending,          \* effect dependencies changed by the last render
    isModalOpen,      \* state: isModalOpen
    editingPersona,   \* state: editingPersona (nullable)
    messages,         \* state: messages, the transcript
    input,            \* state: input
    attachedFile,     \* state: attachedFile (nullable)
    loading,          \* state: loading
    error,            \* state: error (nullable)
    chatRef,          \* chatRef.current (nullable)
    sends,            \* the handleSend calls that are suspended at an await
    outcome,          \* how the last handleSend call went on or ended
    cNow,             \* the last value Date.now() gave to a persona id
    isTranscribing,   \* state: isTranscribing
    transcribing,     \* the transcribeAudio calls that are suspended at an await
    transcription,    \* transcribeAudio local: response.text of the last call (nullable)
    savedAtLoad       \* history: the 'selectedPersonaId' value found at page load

editVars == <<editResponse, editOutcome>>
videoVars == <<vPrompt, vLoading, vLoadingMessage, vError, vUrl, vpc,
               vOperation, vMessageIndex, vProgressCalls, vPolls, vResponse>>
histVars == <<hComp, hPrompt, hOriginal, hUploading, hLoading, hError, hResult,
              hResponseText, hHistory, hStore, hpc, hClosure, hNow, hGenerated,
              hClearedIds>>
regVars == <<personas, pStore, pMounted, pCall>>
transVars == <<isTranscribing, transcribing, transcription>>
chatVars == <<selectedPersonaId, sStore, pending, isModalOpen, editingPersona, messages,
              input, attachedFile, loading, error, chatRef, sends, outcome, cNow,
              transVars, savedAtLoad>>
vars == <<editVars, videoVars, histVars, regVars, chatVars>>

None == << >>
Some(v) == <<v>>

(***************************************************************************)
(* Bounds of the model.                                                    *)
(***************************************************************************)
MaxParts == 3          \* parts in one editImage response
MaxPolls == 7          \* status polls of one video generation
MaxNow == 23           \* last value of Date.now() in a history run
MaxCustom == 1         \* custom persona ids: custom-1 .. custom-MaxCustom
MaxMsgs == 3           \* messages of a transcript when a send is accepted
MaxChunks == 2         \* chunks one stream delivers

(***************************************************************************)
(* editImage: the loop over the parts of the first candidate.              *)
(***************************************************************************)
NL == "\n"

TextPart(t) == [kind |-> "text", text |-> t, mimeType |-> "", data |-> ""]
ImagePart(m, d) == [kind |-> "image", text |-> << >>, mimeType |-> m, data |-> d]

\* The parts a response may hold.  A text part may be the empty string.
EditParts ==
    { TextPart(<<"note">>), TextPart(<<"more">>), TextPart(<< >>),
      ImagePart("image/png", "A"), ImagePart("image/jpeg", "B") }

BoundedSeq(S, n) == UNION { [1..k -> S] : k \in 0..n }

\* `data:${mimeType};base64,${base64ImageBytes}`
DataUrl(mimeType, data) == <<"data:", mimeType, ";base64,", data>>

\* The loop body without the "!imageUrl" test: a later image replaces the first.
EditStepLastImage(acc, part) ==
    IF part.kind = "image"
    THEN [acc EXCEPT !.imageUrl = Some(DataUrl(part.mimeType, part.data))]
    ELSE IF part.kind = "text" /\ part.text # << >>
    THEN [acc EXCEPT !.text =
             Some((IF acc.text # None THEN acc.text[1] \o <<NL>> ELSE << >>)
                  \o part.text)]
    ELSE acc

\* One iteration of the for loop; acc is [imageUrl, text], both nullable.
EditStep(acc, part) ==
    IF part.kind = "image" /\ acc.imageUrl = None
    THEN [acc EXCEPT !.imageUrl = Some(DataUrl(part.mimeType, part.data))]
    ELSE IF part.kind = "text" /\ part.text # << >>
    THEN [acc EXCEPT !.text =
             Some((IF acc.text # None THEN acc.text[1] \o <<NL>> ELSE << >>)
                  \o part.text)]
    ELSE acc

RECURSIVE EditFold(_, _)
EditFold(acc, parts) ==
    IF parts = << >> THEN acc
    ELSE EditFold(EditStep(acc, Head(parts)), Tail(parts))

\* A response: the remote call threw, or it returned candidates (possibly
\* none), the first of which holds the parts.
EditResponses ==
    { [kind |-> "throws", parts |-> << >>],
      [kind |-> "nocandidates", parts |-> << >>] }
    \cup { [kind |-> "candidates", parts |-> p] : p \in BoundedSeq(EditParts, MaxParts) }

\* editImage with the opaque failure for every response without an image.
editImageOpaqueOnly(resp) ==
    IF resp.kind = "throws"
    THEN [status |-> "error", message |-> <<"remote error">>,
          imageUrl |-> None, text |-> None]
    ELSE LET acc == IF resp.kind = "candidates"
                    THEN EditFold([imageUrl |-> None, text |-> None], resp.parts)
                    ELSE [imageUrl |-> None, text |-> None]
         IN  IF acc.imageUrl = None
             THEN [status |-> "error",
                   message |-> <<"No image was returned from the editing service.">>,
                   imageUrl |-> None, text |-> None]
             ELSE [status |-> "ok", message |-> << >>,
                   imageUrl |-> acc.imageUrl, text |-> acc.text]

editImage(resp) ==
    IF resp.kind = "throws"
    THEN [status |-> "error", message |-> <<"remote error">>,
          imageUrl |-> None, text |-> None]
    ELSE LET acc == IF resp.kind = "candidates"
                    THEN EditFold([imageUrl |-> None, text |-> None], resp.parts)
                    ELSE [imageUrl |-> None, text |-> None]
         IN  IF acc.imageUrl = None
             THEN IF acc.text # None
                  THEN [status |-> "error",
                        message |-> <<"The model responded with text but no image: \"">>
                                    \o acc.text[1] \o <<"\"">>,
                        imageUrl |-> None, text |-> None]
                  ELSE [status |-> "error",
                        message |-> <<"No image was returned from the editing service.">>,
                        imageUrl |-> None, text |-> None]
             ELSE [status |-> "ok", message |-> << >>,
                   imageUrl |-> acc.imageUrl, text |-> acc.text]

EditInit ==
    /\ editResponse = [kind |-> "none", parts |-> << >>]
    /\ editOutcome = [status |-> "none", message |-> << >>,
                      imageUrl |-> None, text |-> None]

\* One call of editImage: the remote service answers, editImage settles.
EditCall ==
    \E resp \in EditResponses :
        /\ editResponse' = resp
        /\ editOutcome' = editImage(resp)
        /\ UNCHANGED <<videoVars, histVars, regVars, chatVars>>

(***************************************************************************)
(* VideoCreator.handleGenerate and generateVideo.                          *)
(***************************************************************************)
LoadingMessages == 6   \* loadingMessages.length

VideoInit ==
    /\ vPrompt = << >>
    /\ vLoading = FALSE
    /\ vLoadingMessage = 0
    /\ vError = None
    /\ vUrl = None
    /\ vpc = "idle"
    /\ vOperation = [done |-> FALSE, uri |-> FALSE]
    /\ vMessageIndex = 0
    /\ vProgressCalls = 0
    /\ vPolls = 0
    /\ vResponse = "none"

VideoSetPrompt ==
    /\ ~vLoading                    \* the textarea is disabled while loading
    /\ \E p \in { << >>, <<"cat">> } : vPrompt' = p
    /\ UNCHANGED <<vLoading, vLoadingMessage, vError, vUrl, vpc, vOperation,
                   vMessageIndex, vProgressCalls, vPolls, vResponse>>
    /\ UNCHANGED <<editVars, histVars, regVars, chatVars>>

\* handleGenerate up to the await of ai.models.generateVideos.
VideoHandleGenerate ==
    /\ ~vLoading                    \* the button is disabled while loading
    /\ vpc = "idle"
    /\ IF vPrompt = << >>
       THEN /\ vError' = Some(<<"Please enter a prompt.">>)
            /\ UNCHANGED <<vPrompt, vLoading, vLoadingMessage, vUrl, vpc,
                           vOperation, vMessageIndex, vProgressCalls, vPolls,
                           vResponse>>
       ELSE /\ vLoading' = TRUE
            /\ vError' = None
            /\ vUrl' = None
            /\ vLoadingMessage' = 0
            /\ vMessageIndex' = 0
            /\ vProgressCalls' = 0
            /\ vPolls' = 0
            /\ vResponse' = "none"
            /\ vpc' = "requesting"
            /\ UNCHANGED <<vPrompt, vOperation>>
    /\ UNCHANGED <<editVars, histVars, regVars, chatVars>>

\* The catch of handleGenerate without the finally block.
VideoFailsKeepsLoading ==
    /\ vError' = Some(<<"Failed to communicate with the video generation service.">>)
    /\ vLoading' = vLoading
    /\ vpc' = "idle"
    /\ UNCHANGED <<vPrompt, vLoadingMessage, vUrl, vMessageIndex, vProgressCalls>>

\* generateVideo throws; handleGenerate catches: setError, then setLoading(false).
VideoFails ==
    /\ vError' = Some(<<"Failed to communicate with the video generation service.">>)
    /\ vLoading' = FALSE
    /\ vpc' = "idle"
    /\ UNCHANGED <<vPrompt, vLoadingMessage, vUrl, vMessageIndex, vProgressCalls>>

\* A loop whose body runs once more after done was seen (do ... while).
VideoAfterOperationDoWhile(op) ==
    /\ vOperation' = op
    /\ IF ~op.done
       THEN /\ vMessageIndex' = (vMessageIndex + 1) % LoadingMessages
            /\ vLoadingMessage' = (vMessageIndex + 1) % LoadingMessages
            /\ vProgressCalls' = vProgressCalls + 1
            /\ vpc' = "sleeping"
            /\ UNCHANGED <<vPrompt, vLoading, vError, vUrl>>
       ELSE IF ~op.uri
       THEN VideoFails
       ELSE /\ vMessageIndex' = (vMessageIndex + 1) % LoadingMessages
            /\ vLoadingMessage' = (vMessageIndex + 1) % LoadingMessages
            /\ vProgressCalls' = vProgressCalls + 1
            /\ vpc' = "fetching"
            /\ UNCHANGED <<vPrompt, vLoading, vError, vUrl>>

\* The while loop's test with the operation just received, then either one
\* iteration's onProgress() up to the await of the timer, or the code after
\* the loop up to the await of fetch.
VideoAfterOperation(op) ==
    /\ vOperation' = op
    /\ IF ~op.done
       THEN /\ vMessageIndex' = (vMessageIndex + 1) % LoadingMessages
            /\ vLoadingMessage' = (vMessageIndex + 1) % LoadingMessages
            /\ vProgressCalls' = vProgressCalls + 1
            /\ vpc' = "sleeping"
            /\ UNCHANGED <<vPrompt, vLoading, vError, vUrl>>
       ELSE IF ~op.uri
       THEN VideoFails
       ELSE /\ vpc' = "fetching"
            /\ UNCHANGED <<vPrompt, vLoading, vLoadingMessage, vError, vUrl,
                           vMessageIndex, vProgressCalls>>

VideoOperations == [done : BOOLEAN, uri : BOOLEAN]

\* ai.models.generateVideos settles.
VideoRequestReturns ==
    /\ vpc = "requesting"
    /\ \E op \in VideoOperations :
          /\ op.uri => op.done
          /\ VideoAfterOperation(op)
    /\ UNCHANGED <<vPolls, vResponse>>
    /\ UNCHANGED <<editVars, histVars, regVars, chatVars>>

VideoRequestThrows ==
    /\ vpc = "requesting"
    /\ VideoFails
    /\ UNCHANGED <<vOperation, vPolls, vResponse>>
    /\ UNCHANGED <<editVars, histVars, regVars, chatVars>>

\* The 10 second timer fires; getVideosOperation is awaited.
VideoTimerFires ==
    /\ vpc = "sleeping"
    /\ vpc' = "polling"
    /\ UNCHANGED <<vPrompt, vLoading, vLoadingMessage, vError, vUrl,
                   vOperation, vMessageIndex, vProgressCalls, vPolls, vResponse>>
    /\ UNCHANGED <<editVars, histVars, regVars, chatVars>>

\* ai.operations.getVideosOperation settles.
VideoPollReturns ==
    /\ vpc = "polling"
    /\ vPolls' = vPolls + 1
    /\ \E op \in VideoOperations :
          /\ op.uri => op.done
          /\ ~op.done => vPolls + 1 < MaxPolls
          /\ VideoAfterOperation(op)
    /\ UNCHANGED vResponse
    /\ UNCHANGED <<editVars, histVars, regVars, chatVars>>

VideoPollThrows ==
    /\ vpc = "polling"
    /\ vPolls' = vPolls + 1
    /\ VideoFails
    /\ UNCHANGED <<vOperation, vResponse>>
    /\ UNCHANGED <<editVars, histVars, regVars, chatVars>>

\* How fetch can settle: a response with ok true, a response with ok false,
\* a rejection.
FetchResults == {"ok", "notok", "rejected"}

\* The code after fetch without the test of response.ok.
VideoAfterFetchUnchecked(res) ==
    IF res # "rejected"
    THEN /\ vpc' = "blob"
         /\ UNCHANGED <<vPrompt, vLoading, vLoadingMessage, vError, vUrl,
                        vMessageIndex, vProgressCalls>>
    ELSE VideoFails

\* The code after fetch: a response that is not ok throws, a rejection is
\* caught, ok awaits response.blob().
VideoAfterFetch(res) ==
    IF res = "ok"
    THEN /\ vpc' = "blob"
         /\ UNCHANGED <<vPrompt, vLoading, vLoadingMessage, vError, vUrl,
                        vMessageIndex, vProgressCalls>>
    ELSE VideoFails

\* fetch settles.
VideoFetchReturns ==
    /\ vpc = "fetching"
    /\ \E res \in FetchResults :
          /\ vResponse' = res
          /\ VideoAfterFetch(res)
    /\ UNCHANGED <<vOperation, vPolls>>
    /\ UNCHANGED <<editVars, histVars, regVars, chatVars>>

\* response.blob() settles; generateVideo returns URL.createObjectURL(blob),
\* handleGenerate runs setVideoUrl(url) and setLoading(false).
VideoBlobReturns ==
    /\ vpc = "blob"
    /\ vUrl' = Some(<<"blob:", "video">>)
    /\ vLoading' = FALSE
    /\ vpc' = "idle"
    /\ UNCHANGED <<vPrompt, vLoadingMessage, vError, vOperation, vMessageIndex,
                   vProgressCalls, vPolls, vResponse>>
    /\ UNCHANGED <<editVars, histVars, regVars, chatVars>>

VideoNext ==
    \/ VideoSetPrompt
    \/ VideoHandleGenerate
    \/ VideoRequestReturns
    \/ VideoRequestThrows
    \/ VideoTimerFires
    \/ VideoPollReturns
    \/ VideoPollThrows
    \/ VideoFetchReturns
    \/ VideoBlobReturns

(***************************************************************************)
(* ImageGenerator and ImageEditor: handleGenerate, the history state and   *)
(* its localStorage copy.  A history record is modelled by its id, prompt  *)
(* and result url.                                                         *)
(***************************************************************************)
HistoryCap == 20       \* .slice(0, 20)

Min(a, b) == IF a < b THEN a ELSE b
Take(seq, n) == SubSeq(seq, 1, Min(Len(seq), n))

\* generateImage: the first generated image as a jpeg data URL; no image or
\* a failed call is rethrown as one generic error.
ImageResponses == { [kind |-> "throws", images |-> << >>],
                    [kind |-> "ok", images |-> << >>],
                    [kind |-> "ok", images |-> <<"A">>] }

generateImage(resp) ==
    IF resp.kind = "ok" /\ Len(resp.images) > 0
    THEN [status |-> "ok", message |-> << >>,
          imageUrl |-> Some(DataUrl("image/jpeg", resp.images[1])), text |-> None]
    ELSE [status |-> "error",
          message |-> <<"Failed to communicate with the image generation service.">>,
          imageUrl |-> None, text |-> None]

\* The responses the editor's remote call is given in a history run.
EditorResponses ==
    { [kind |-> "throws", parts |-> << >>],
      [kind |-> "candidates", parts |-> << TextPart(<<"note">>) >>],
      [kind |-> "candidates", parts |-> << ImagePart("image/png", "A") >>],
      [kind |-> "candidates",
       parts |-> << TextPart(<<"note">>), ImagePart("image/png", "A") >>] }

\* A stored value: absent (getItem gives null), JSON text of a list of
\* records, text that JSON.parse rejects, or the JSON text "null".
StoreAbsent == [kind |-> "absent", val |-> << >>]
StoreCorrupt == [kind |-> "corrupt", val |-> << >>]
StoreNull == [kind |-> "null", val |-> << >>]
JsonStringify(records) == [kind |-> "json", val |-> records]

HistoryItem(id, prompt, url) == [id |-> id, prompt |-> prompt, url |-> url]

\* [newHistoryItem, ...history].slice(0, 20), with an off-by-one cap.
UpdatedHistoryCap21(item, history) == Take(<<item>> \o history, HistoryCap + 1)

\* [newHistoryItem, ...history].slice(0, 20)
UpdatedHistory(item, history) == Take(<<item>> \o history, HistoryCap)

\* Records of an earlier session: ids k, k-1, .., 1.
EarlierRecords(k) ==
    [i \in 1..k |-> HistoryItem(k + 1 - i, <<"cat">>, DataUrl("image/jpeg", "A"))]

Ids(records) == [i \in 1..Len(records) |-> records[i].id]

\* The component starts with one of the given store contents: the clock
\* value, the stored value and the ids of the records generated so far.
HistInitFrom(comps, stores) ==
    /\ hComp \in comps
    /\ hPrompt = << >>
    /\ hOriginal = None
    /\ hUploading = FALSE
    /\ hLoading = FALSE
    /\ hError = None
    /\ hResult = None
    /\ hResponseText = None
    /\ hHistory = << >>
    /\ hpc = "mount"
    /\ hClosure = [prompt |-> << >>, original |-> None, history |-> << >>]
    /\ hClearedIds = {}
    /\ \E st \in stores :
          /\ hNow = st.now
          /\ hStore = st.store
          /\ hGenerated = st.ids

\* The store after k generations of an earlier session.
EarlierStore(k) ==
    [now |-> k,
     store |-> (IF k = 0 THEN StoreAbsent ELSE JsonStringify(EarlierRecords(k))),
     ids |-> Ids(EarlierRecords(k))]

HistInitWith(comps, earlier) == HistInitFrom(comps, { EarlierStore(k) : k \in earlier })

HistInit == HistInitWith({"generator", "editor"}, {0, 2})

\* The same with one component and an empty store: the start of the history
\* state in the specifications of the other components.
HistIdle == HistInitWith({"generator"}, {0})

\* The component is rendered and takes events.
HistMounted == hpc \in {"idle", "awaiting"}

\* The mount effect: setHistory(JSON.parse(storedHistory)) when a value is
\* stored; a parse failure is caught and logged.  The text "null" parses:
\* setHistory(null) is called and the next render throws at history.length,
\* which unmounts the component.
HistLoad ==
    /\ hpc = "mount"
    /\ hpc' = (IF hStore.kind = "null" THEN "crashed" ELSE "idle")
    /\ hHistory' = (IF hStore.kind = "json" THEN hStore.val ELSE hHistory)
    /\ UNCHANGED <<hComp, hPrompt, hOriginal, hUploading, hLoading, hError,
                   hResult, hResponseText, hStore, hClosure, hNow, hGenerated,
                   hClearedIds>>
    /\ UNCHANGED <<editVars, videoVars, regVars, chatVars>>

\* The prompt textarea (disabled while loading; in the editor also without
\* an image).
HistSetPrompt ==
    /\ HistMounted
    /\ ~hLoading
    /\ hComp = "editor" => hOriginal # None
    /\ \E p \in { << >>, <<"cat">> } : hPrompt' = p
    /\ UNCHANGED <<hComp, hOriginal, hUploading, hLoading, hError, hResult,
                   hResponseText, hHistory, hStore, hpc, hClosure, hNow,
                   hGenerated, hClearedIds>>
    /\ UNCHANGED <<editVars, videoVars, regVars, chatVars>>

\* ImageEditor.handleImageUpload up to the await of fileToDataUrl.
HistUploadStart ==
    /\ HistMounted
    /\ hComp = "editor"
    /\ ~hUploading
    /\ hUploading' = TRUE
    /\ hError' = None
    /\ hResult' = None
    /\ hResponseText' = None
    /\ UNCHANGED <<hComp, hPrompt, hOriginal, hLoading, hHistory, hStore, hpc,
                   hClosure, hNow, hGenerated, hClearedIds>>
    /\ UNCHANGED <<editVars, videoVars, regVars, chatVars>>

\* fileToDataUrl resolves: setOriginalImage(url).
HistUploadDone ==
    /\ hUploading
    /\ hUploading' = FALSE
    /\ hOriginal' = Some(DataUrl("image/png", "src"))
    /\ UNCHANGED <<hComp, hPrompt, hLoading, hError, hResult, hResponseText,
                   hHistory, hStore, hpc, hClosure, hNow, hGenerated, hClearedIds>>
    /\ UNCHANGED <<editVars, videoVars, regVars, chatVars>>

\* handleGenerate up to the await of generateImage / editImage.  The button
\* is disabled while loading (in the editor also without prompt or image).
HistHandleGenerate ==
    /\ hpc = "idle"
    /\ ~hLoading
    /\ hComp = "editor" => (hPrompt # << >> /\ hOriginal # None)
    /\ IF hPrompt = << >>
       THEN /\ hError' = Some(<<"Please enter a prompt.">>)
            /\ UNCHANGED <<hLoading, hResult, hResponseText, hpc, hClosure>>
       ELSE /\ hLoading' = TRUE
            /\ hError' = None
            /\ hResult' = None
            /\ hResponseText' = (IF hComp = "editor" THEN None ELSE hResponseText)
            /\ hpc' = "awaiting"
            /\ hClosure' = [prompt |-> hPrompt, original |-> hOriginal,
                            history |-> hHistory]
    /\ UNCHANGED <<hComp, hPrompt, hOriginal, hUploading, hHistory, hStore, hNow,
                   hGenerated, hClearedIds>>
    /\ UNCHANGED <<editVars, videoVars, regVars, chatVars>>

\* The remote call settles and handleGenerate runs to its end: on success
\* the result is shown and the new record is put before the history the
\* callback closed over, capped, set as state and written to localStorage;
\* on failure the error is set; finally loading is reset.
QuotaExceeded == <<"The quota has been exceeded.">>

HistSettles(writeOk) ==
    /\ hpc = "awaiting"
    /\ hpc' = "idle"
    /\ hLoading' = FALSE
    /\ \E result \in (IF hComp = "generator"
                      THEN { generateImage(r) : r \in ImageResponses }
                      ELSE { editImage(r) : r \in EditorResponses }) :
          IF result.status = "ok"
          THEN LET item == HistoryItem(hNow + 1, hClosure.prompt, result.imageUrl[1])
                   updatedHistory == UpdatedHistory(item, hClosure.history)
               IN  /\ hResult' = result.imageUrl
                   /\ hResponseText' = (IF result.text # None THEN result.text
                                        ELSE hResponseText)
                   /\ hHistory' = updatedHistory
                   /\ hStore' = (IF writeOk THEN JsonStringify(updatedHistory) ELSE hStore)
                   /\ hNow < MaxNow
                   /\ hNow' = hNow + 1
                   /\ hGenerated' = <<hNow + 1>> \o hGenerated
                   /\ hError' = (IF writeOk THEN hError ELSE Some(QuotaExceeded))
          ELSE /\ writeOk
               /\ hError' = Some(result.message)
               /\ UNCHANGED <<hResult, hResponseText, hHistory, hStore, hNow,
                              hGenerated>>
    /\ UNCHANGED <<hComp, hPrompt, hOriginal, hUploading, hClosure, hClearedIds>>
    /\ UNCHANGED <<editVars, videoVars, regVars, chatVars>>

HistRemoteSettles == HistSettles(TRUE)

\* The same with a remote success whose localStorage.setItem throws: the
\* throw is inside the try block of handleGenerate, after setHistory, and
\* is caught by its catch block.
HistRemoteSettlesStoreFull == HistSettles(FALSE)

\* handleClearHistory, confirmed; the button shows with a non-empty history.
HistHandleClearHistory ==
    /\ HistMounted
    /\ Len(hHistory) > 0
    /\ hHistory' = << >>
    /\ hStore' = StoreAbsent
    /\ hClearedIds' = hClearedIds \cup { hHistory[i].id : i \in 1..Len(hHistory) }
    /\ UNCHANGED <<hComp, hPrompt, hOriginal, hUploading, hLoading, hError,
                   hResult, hResponseText, hpc, hClosure, hNow, hGenerated>>
    /\ UNCHANGED <<editVars, videoVars, regVars, chatVars>>

HistNext ==
    \/ HistLoad
    \/ HistSetPrompt
    \/ HistUploadStart
    \/ HistUploadDone
    \/ HistHandleGenerate
    \/ HistRemoteSettles
    \/ HistHandleClearHistory

HistNextFaults ==
    \/ HistNext
    \/ HistRemoteSettlesStoreFull

\* Store contents at page load for the runs with storage faults: a full
\* history, text that does not parse, the text "null".
FaultStores ==
    { EarlierStore(HistoryCap),
      [now |-> HistoryCap, store |-> StoreCorrupt, ids |-> << >>],
      [now |-> HistoryCap, store |-> StoreNull, ids |-> << >>] }

HistInitFaults == HistInitFrom({"generator", "editor"}, FaultStores)

(***************************************************************************)
(* types.ts defaultPersonas and the usePersonas hook.                      *)
(***************************************************************************)
DefaultIds == {"Nexus", "Professional", "Friendly", "Witty"}

Persona(id, name, instruction, welcomeMessage) ==
    [id |-> id, name |-> name, instruction |-> instruction,
     welcomeMessage |-> welcomeMessage]

defaultPersonas ==
    [id \in DefaultIds |->
        CASE id = "Nexus" ->
               Persona(id, <<"Nexus (Default)">>,
                       <<"You are Nexus, an advanced AI assistant. Be helpful, clear, and concise. You can analyze images and text with great detail.">>,
                       <<"Hello! I'm Nexus. How can I assist you today?">>)
          [] id = "Professional" ->
               Persona(id, <<"Professional">>,
                       <<"You are a professional assistant. Use formal language, be respectful, and provide structured responses.">>,
                       <<"Good day. How may I be of service?">>)
          [] id = "Friendly" ->
               Persona(id, <<"Friendly">>,
                       <<"You are a warm and friendly assistant. Be cheerful, conversational, and engaging.">>,
                       <<"Hey there! What's on your mind?">>)
          [] OTHER ->
               Persona(id, <<"Witty">>,
                       <<"You are a witty and clever assistant. Use humor, wordplay, and clever phrasing.">>,
                       <<"Well hello! Ready for some banter and brilliance?">>)]

\* `custom-${Date.now()}`
CustomId(n) == "custom-" \o ToString(n)
CustomIds == { CustomId(n) : n \in 1..MaxCustom }

\* What the persona form can hold (name, instruction, welcome message all
\* non-blank).
PersonaData ==
    { [name |-> <<"Robot">>, instruction |-> <<"You are a sarcastic robot">>,
       welcomeMessage |-> <<"Oh, great.">>],
      [name |-> <<"Robot">>, instruction |-> <<"You are a sarcastic robot">>,
       welcomeMessage |-> <<"Another human.">>] }

WithId(data, id) == Persona(id, data.name, data.instruction, data.welcomeMessage)

\* { ...a, ...b }: the entries of a, replaced and extended by those of b.
Spread(a, b) ==
    [k \in DOMAIN a \cup DOMAIN b |-> IF k \in DOMAIN b THEN b[k] ELSE a[k]]

\* Object.fromEntries(Object.entries(updated).filter(([key]) => !defaultPersonas[key]))
CustomSubset(updated) == [k \in DOMAIN updated \ DefaultIds |-> updated[k]]

EmptyMap == [k \in {} |-> k]
PStoreAbsent == [kind |-> "absent", val |-> EmptyMap]
PStoreCorrupt == [kind |-> "corrupt", val |-> EmptyMap]
PStoreJson(map) == [kind |-> "json", val |-> map]

\* savePersona: the new state and the value written to localStorage.
savePersona(ps, persona) ==
    LET updated == Spread(ps, [k \in {persona.id} |-> persona])
    IN  [changed |-> TRUE, personas |-> updated,
         store |-> PStoreJson(CustomSubset(updated))]

\* deletePersona without the test of defaultPersonas[id].
deletePersonaUnguarded(ps, id) ==
    LET updated == [k \in DOMAIN ps \ {id} |-> ps[k]]
    IN  [changed |-> TRUE, personas |-> updated,
         store |-> PStoreJson(CustomSubset(updated))]

\* deletePersona: nothing for a built-in id, else the new state and the
\* value written to localStorage.
deletePersona(ps, id) ==
    IF id \in DefaultIds
    THEN [changed |-> FALSE, personas |-> ps, store |-> PStoreAbsent]
    ELSE LET updated == [k \in DOMAIN ps \ {id} |-> ps[k]]
         IN  [changed |-> TRUE, personas |-> updated,
              store |-> PStoreJson(CustomSubset(updated))]

\* The load effect: with a stored value that parses, the built-ins merged
\* with the stored map (stored entries win); else the state is left as is.
loadPersonas(ps, store) ==
    IF store.kind = "json"
    THEN [changed |-> TRUE, personas |-> Spread(defaultPersonas, store.val)]
    ELSE [changed |-> FALSE, personas |-> ps]

\* The values 'nexus-custom-personas' may hold when the page loads.
InitialPStores ==
    { PStoreAbsent, PStoreCorrupt, PStoreJson(EmptyMap),
      PStoreJson([k \in {CustomId(1)} |->
                    WithId(CHOOSE d \in PersonaData : d.welcomeMessage = <<"Oh, great.">>,
                           CustomId(1))]) }

NoCall == [op |-> "none", id |-> ""]
Call(op, id) == [op |-> op, id |-> id]

RegInitWith(stores) ==
    /\ personas = defaultPersonas
    /\ pStore \in stores
    /\ pMounted = FALSE
    /\ pCall = NoCall

RegInit == RegInitWith(InitialPStores)

\* The hook's mount effect.
RegLoad ==
    /\ ~pMounted
    /\ pMounted' = TRUE
    /\ personas' = loadPersonas(personas, pStore).personas
    /\ UNCHANGED <<pStore, pCall>>
    /\ UNCHANGED <<editVars, videoVars, histVars, chatVars>>

\* savePersona called with any persona.
RegSavePersona ==
    /\ pMounted
    /\ \E id \in DefaultIds \cup CustomIds : \E data \in PersonaData :
          LET r == savePersona(personas, WithId(data, id))
          IN  /\ personas' = r.personas
              /\ pStore' = (IF r.changed THEN r.store ELSE pStore)
              /\ pCall' = Call("save", id)
    /\ UNCHANGED pMounted
    /\ UNCHANGED <<editVars, videoVars, histVars, chatVars>>

\* deletePersona called with any id.
RegDeletePersona ==
    /\ pMounted
    /\ \E id \in DefaultIds \cup CustomIds :
          LET r == deletePersona(personas, id)
          IN  /\ personas' = r.personas
              /\ pStore' = (IF r.changed THEN r.store ELSE pStore)
              /\ pCall' = Call("delete", id)
    /\ UNCHANGED pMounted
    /\ UNCHANGED <<editVars, videoVars, histVars, chatVars>>

\* The page is reloaded: the hook starts again from defaultPersonas.
RegReload ==
    /\ pMounted
    /\ pMounted' = FALSE
    /\ personas' = defaultPersonas
    /\ UNCHANGED <<pStore, pCall>>
    /\ UNCHANGED <<editVars, videoVars, histVars, chatVars>>

RegNext ==
    \/ RegLoad
    \/ RegSavePersona
    \/ RegDeletePersona
    \/ RegReload

(***************************************************************************)
(* components/Chatbot.tsx: the chat component.  A render commits the state  *)
(* and leaves in `pending` the dependencies it changed; RunEffects runs the *)
(* effects of that commit in hook order.  handleSend is cut at its awaits.  *)
(***************************************************************************)
Message(role, parts) == [role |-> role, parts |-> parts]

\* The whitespace characters of the input alphabet.
IsSpace(ch) == ch = " "

RECURSIVE TrimStart(_)
TrimStart(t) ==
    IF t # << >> /\ IsSpace(Head(t)) THEN TrimStart(Tail(t)) ELSE t

RECURSIVE TrimEnd(_)
TrimEnd(t) ==
    IF t # << >> /\ IsSpace(t[Len(t)]) THEN TrimEnd(SubSeq(t, 1, Len(t) - 1)) ELSE t

\* String.prototype.trim
Trim(t) == TrimEnd(TrimStart(t))

\* prev.slice(0, -1)
DropLast(s) == IF s = << >> THEN s ELSE SubSeq(s, 1, Len(s) - 1)

\* The s without its i-th element.
RemoveAt(s, i) == SubSeq(s, 1, i - 1) \o SubSeq(s, i + 1, Len(s))

\* What the text box can hold, and the files the picker can attach.
Inputs == { << >>, <<" ">>, <<"hi">> }
Files == { [type |-> "image/png", bytes |-> "PNG"] }

\* readAsDataURL gives "data:<type>;base64,<payload>"; split(',')[1] is the
\* payload.
ReadAsDataURL(file) == <<"data:" \o file.type \o ";base64", "b64(" \o file.bytes \o ")">>
fileToGenerativePart(file) == ImagePart(file.type, ReadAsDataURL(file)[2])

\* userParts of handleSend: the encoded attachment if any, then the text if
\* it is not blank.
\* userParts without the file part.
UserPartsTextOnly(file, text) ==
    IF Trim(text) # << >> THEN <<TextPart(text)>> ELSE << >>

UserParts(file, text) ==
    (IF file # None THEN <<fileToGenerativePart(file[1])>> ELSE << >>)
    \o (IF Trim(text) # << >> THEN <<TextPart(text)>> ELSE << >>)

\* The chunk texts a stream delivers, in order (and again from the first).
Chunks == << <<"Hel">>, <<"lo">> >>

\* The updater of the streaming loop: the chunk is appended to the last
\* message if that message's role is 'model'.
ApplyChunk(ms, chunkText) ==
    IF ms = << >>
    THEN ms
    ELSE LET last == ms[Len(ms)]
             existingText == IF last.parts # << >> /\ last.parts[1].kind = "text"
                             THEN last.parts[1].text
                             ELSE << >>
         IN  IF last.role = "model"
             THEN [ms EXCEPT ![Len(ms)] =
                      Message(last.role, <<TextPart(existingText \o chunkText)>>)]
             ELSE ms

\* Another built-in id.
FallbackIdNexus == "Nexus"

\* personas[selectedPersonaId] || personas['Professional']
FallbackId == "Professional"
\* The same falling back to personas['Nexus'].
EffectiveIdNexus(ps, sel) == IF sel \in DOMAIN ps THEN sel ELSE "Nexus"

EffectiveId(ps, sel) == IF sel \in DOMAIN ps THEN sel ELSE FallbackId
personaConfig == personas[EffectiveId(personas, selectedPersonaId)]

\* selectedPersonaId && !defaultPersonas[selectedPersonaId]
isCustomPersona == selectedPersonaId \notin DefaultIds

\* ai.chats.create({config: {systemInstruction}}): a new chat handle.
ChatCreate(cfg) == [persona |-> cfg.id, systemInstruction |-> cfg.instruction]

WelcomeTranscript(cfg) == <<Message("model", <<TextPart(cfg.welcomeMessage)>>)>>

\* The values 'selectedPersonaId' may hold in localStorage when the page
\* loads: nothing, a built-in id, a custom id (of a stored persona or, with
\* another value of 'nexus-custom-personas', of one that no longer exists).
InitialSelected == { None, Some("Friendly"), Some(CustomId(1)) }

\* The values 'nexus-custom-personas' may hold when the chat page loads.
ChatPStores == { PStoreAbsent }

\* The chat after construction, with one of the given persisted selections;
\* with track, the persisted selection found is recorded.
ChatInitTracking(selected, track) ==
    /\ selectedPersonaId = "Professional"
    /\ sStore \in selected
    /\ savedAtLoad = (IF track THEN sStore ELSE None)
    /\ pending = {"mount"}
    /\ isModalOpen = FALSE
    /\ editingPersona = None
    /\ messages = << >>
    /\ input = << >>
    /\ attachedFile = None
    /\ loading = FALSE
    /\ error = None
    /\ chatRef = None
    /\ sends = << >>
    /\ outcome = "none"
    /\ cNow = 0
    /\ isTranscribing = FALSE
    /\ transcribing = 0
    /\ transcription = None

ChatInitWith(selected) == ChatInitTracking(selected, FALSE)

ChatInit == ChatInitWith(InitialSelected)
ChatIdle == ChatInitWith({None})

\* The dependencies a render changes, from the state before and after:
\* [personas] when setPersonas was called (a new map object), [selectedPersonaId]
\* when the id differs, [personaConfig] when the effective persona is another
\* object: another id, or an id whose object was replaced.
PendingAfter(oldP, oldS, newP, newS, mapChanged, replaced) ==
    (IF mapChanged THEN {"personas"} ELSE {})
    \cup (IF newS # oldS THEN {"selected"} ELSE {})
    \cup (IF \/ EffectiveId(newP, newS) # EffectiveId(oldP, oldS)
             \/ EffectiveId(newP, newS) \in replaced
          THEN {"config"} ELSE {})

InitError == <<"Failed to initialize AI Chat. Please check your API key and refresh the page.">>

\* The session-init effect without setMessages([welcome]).
SessionInitKeepingTranscript(createOk) ==
    IF createOk
    THEN /\ chatRef' = Some(ChatCreate(personaConfig))
         /\ messages' = messages
         /\ error' = None
    ELSE /\ chatRef' = chatRef
         /\ messages' = << >>
         /\ error' = Some(InitError)

\* The session-init effect: with createOk, a new chat handle, the welcome
\* transcript and no error; when ai.chats.create throws, the error and an
\* empty transcript, chatRef.current as it was.
SessionInit(createOk) ==
    IF createOk
    THEN /\ chatRef' = Some(ChatCreate(personaConfig))
         /\ messages' = WelcomeTranscript(personaConfig)
         /\ error' = None
    ELSE /\ chatRef' = chatRef
         /\ messages' = << >>
         /\ error' = Some(InitError)

\* The effects of one commit, in hook order: the usePersonas load effect (on
\* mount), the settings-read effect [personas], the id-write effect
\* [selectedPersonaId], the fallback effect [personas, selectedPersonaId], the
\* session-init effect [personaConfig]; then the render of the state they set.
RunEffects ==
    /\ pending # {}
    /\ LET mount == "mount" \in pending
           load == IF mount THEN loadPersonas(personas, pStore)
                   ELSE [changed |-> FALSE, personas |-> personas]
           readRuns == mount \/ "personas" \in pending
           writeRuns == mount \/ "selected" \in pending
           fallbackRuns == mount \/ "personas" \in pending \/ "selected" \in pending
           initRuns == mount \/ "config" \in pending
           restored == readRuns /\ sStore # None /\ sStore[1] \in DOMAIN personas
           fellBack == fallbackRuns /\ selectedPersonaId \notin DOMAIN personas
           newS == IF fellBack THEN FallbackId
                   ELSE IF restored THEN sStore[1]
                   ELSE selectedPersonaId
           replaced == IF load.changed THEN DOMAIN pStore.val ELSE {}
       IN  /\ personas' = load.personas
           /\ pMounted' = TRUE
           /\ sStore' = (IF writeRuns THEN Some(selectedPersonaId) ELSE sStore)
           /\ selectedPersonaId' = newS
           /\ IF initRuns
              THEN \E createOk \in BOOLEAN : SessionInit(createOk)
              ELSE UNCHANGED <<chatRef, messages, error>>
           /\ pending' = PendingAfter(personas, selectedPersonaId, load.personas, newS,
                                      load.changed, replaced)
    /\ UNCHANGED <<pStore, pCall, isModalOpen, editingPersona, input, attachedFile, loading,
                   sends, outcome, cNow>>
    /\ UNCHANGED <<editVars, videoVars, histVars, transVars, savedAtLoad>>

\* The main controls can be used: the last commit's effects have run and the
\* persona form does not cover the page.
Usable == pending = {} /\ ~isModalOpen

\* disabled={loading} of the controls, without isTranscribing.
ControlsDisabledWhenLoading == loading

\* disabled={loading || isTranscribing} of the attach button and the text box
\* (the send button adds the blank-input test of handleSend).
ControlsDisabled == loading \/ isTranscribing

\* <select onChange>: another persona of the list is chosen.
SelectPersona ==
    /\ Usable
    /\ \E id \in DOMAIN personas \ {selectedPersonaId} :
          /\ selectedPersonaId' = id
          /\ pending' = PendingAfter(personas, selectedPersonaId, personas, id, FALSE, {})
    /\ UNCHANGED <<regVars, sStore, isModalOpen, editingPersona, messages, input,
                   attachedFile, loading, error, chatRef, sends, outcome, cNow>>
    /\ UNCHANGED <<editVars, videoVars, histVars, transVars, savedAtLoad>>

handleOpenCreateModal ==
    /\ Usable
    /\ cNow < MaxCustom
    /\ editingPersona' = None
    /\ isModalOpen' = TRUE
    /\ UNCHANGED <<regVars, selectedPersonaId, sStore, pending, messages, input,
                   attachedFile, loading, error, chatRef, sends, outcome, cNow>>
    /\ UNCHANGED <<editVars, videoVars, histVars, transVars, savedAtLoad>>

handleOpenEditModal ==
    /\ Usable
    /\ selectedPersonaId \in DOMAIN personas /\ isCustomPersona
    /\ editingPersona' = Some(personas[selectedPersonaId])
    /\ isModalOpen' = TRUE
    /\ UNCHANGED <<regVars, selectedPersonaId, sStore, pending, messages, input,
                   attachedFile, loading, error, chatRef, sends, outcome, cNow>>
    /\ UNCHANGED <<editVars, videoVars, histVars, transVars, savedAtLoad>>

\* onClose of the persona form.
ModalClose ==
    /\ pending = {} /\ isModalOpen
    /\ isModalOpen' = FALSE
    /\ editingPersona' = None
    /\ UNCHANGED <<regVars, selectedPersonaId, sStore, pending, messages, input,
                   attachedFile, loading, error, chatRef, sends, outcome, cNow>>
    /\ UNCHANGED <<editVars, videoVars, histVars, transVars, savedAtLoad>>

\* onSave of the persona form: an edit keeps the id of the edited persona, a
\* creation takes `custom-${Date.now()}` and selects it.
handleSaveOrUpdatePersona ==
    /\ pending = {} /\ isModalOpen
    /\ \E data \in PersonaData :
          IF editingPersona # None
          THEN LET id == editingPersona[1].id
                   r == savePersona(personas, WithId(data, id))
               IN  /\ personas' = r.personas
                   /\ pStore' = r.store
                   /\ pCall' = Call("save", id)
                   /\ pending' = PendingAfter(personas, selectedPersonaId, r.personas,
                                              selectedPersonaId, TRUE, {id})
                   /\ UNCHANGED <<selectedPersonaId, cNow>>
          ELSE LET id == CustomId(cNow + 1)
                   r == savePersona(personas, WithId(data, id))
               IN  /\ cNow' = cNow + 1
                   /\ personas' = r.personas
                   /\ pStore' = r.store
                   /\ pCall' = Call("save", id)
                   /\ selectedPersonaId' = id
                   /\ pending' = PendingAfter(personas, selectedPersonaId, r.personas,
                                              id, TRUE, {id})
    /\ isModalOpen' = FALSE
    /\ editingPersona' = None
    /\ UNCHANGED <<pMounted, sStore, messages, input, attachedFile, loading, error,
                   chatRef, sends, outcome>>
    /\ UNCHANGED <<editVars, videoVars, histVars, transVars, savedAtLoad>>

\* The delete button of a custom persona, confirmed.
handleDeletePersona ==
    /\ Usable
    /\ isCustomPersona
    /\ LET r == deletePersona(personas, selectedPersonaId)
       IN  /\ personas' = r.personas
           /\ pStore' = (IF r.changed THEN r.store ELSE pStore)
           /\ pCall' = Call("delete", selectedPersonaId)
           /\ pending' = PendingAfter(personas, selectedPersonaId, r.personas,
                                      selectedPersonaId, r.changed, {})
    /\ UNCHANGED <<pMounted, selectedPersonaId, sStore, isModalOpen, editingPersona,
                   messages, input, attachedFile, loading, error, chatRef, sends,
                   outcome, cNow>>
    /\ UNCHANGED <<editVars, videoVars, histVars, transVars, savedAtLoad>>

\* The text box and the attach button are disabled while loading.
SetInput ==
    /\ Usable /\ ~ControlsDisabled
    /\ \E t \in Inputs \ {input} : input' = t
    /\ UNCHANGED <<regVars, selectedPersonaId, sStore, pending, isModalOpen,
                   editingPersona, messages, attachedFile, loading, error, chatRef,
                   sends, outcome, cNow>>
    /\ UNCHANGED <<editVars, videoVars, histVars, transVars, savedAtLoad>>

\* handleFileChange with an image file.
handleFileChange ==
    /\ Usable /\ ~ControlsDisabled
    /\ attachedFile = None
    /\ \E f \in Files : attachedFile' = Some(f)
    /\ error' = None
    /\ UNCHANGED <<regVars, selectedPersonaId, sStore, pending, isModalOpen,
                   editingPersona, messages, input, loading, chatRef, sends, outcome,
                   cNow>>
    /\ UNCHANGED <<editVars, videoVars, histVars, transVars, savedAtLoad>>

\* A handleSend call suspended at an await: where it is, the input and the
\* attachment of its closure, the chat handle it streams from, the chunks it
\* has received (fullResponse, n of them).
SendRec(pc, inp, file, chat) ==
    [pc |-> pc, input |-> inp, file |-> file, chat |-> chat,
     fullResponse |-> << >>, n |-> 0]

\* The guard of handleSend without `|| loading`.
SendRefusedIgnoringLoading(inp, file, busy) ==
    Trim(inp) = << >> /\ file = None

\* The guard of handleSend without its first disjunct.
SendRefusedWhenLoading(inp, file, busy) == busy

\* (!input.trim() && !attachedFile) || loading
SendRefused(inp, file, busy) ==
    (Trim(inp) = << >> /\ file = None) \/ busy

NotInitialized == <<"Chat not initialized.">>

\* handleSend from the user message on: the message is appended, the input
\* and the attachment are cleared, and the stream is requested from
\* chatRef.current; without a chat handle the throw is caught in the same
\* task (the message is sliced off again, loading is reset).
SendContinue(inp, file, errorNow, loadingNow, others) ==
    LET userMessage == Message("user", UserParts(file, inp))
        appended == Append(messages, userMessage)
    IN  /\ input' = << >>
        /\ attachedFile' = None
        /\ IF chatRef = None
           THEN /\ messages' = DropLast(appended)
                /\ error' = Some(NotInitialized)
                /\ loading' = FALSE
                /\ sends' = others
                /\ outcome' = "openFailed"
           ELSE /\ messages' = appended
                /\ error' = errorNow
                /\ loading' = loadingNow
                /\ sends' = Append(others, SendRec("opening", inp, file, chatRef))
                /\ outcome' = "started"

\* handleSend up to its first await.
handleSend ==
    IF SendRefused(input, attachedFile, loading)
    THEN /\ outcome' = "ignored"
         /\ UNCHANGED <<messages, input, attachedFile, loading, error, sends>>
    ELSE /\ Len(messages) + 2 <= MaxMsgs
         /\ IF attachedFile # None
            THEN /\ loading' = TRUE
                 /\ error' = None
                 /\ sends' = Append(sends, SendRec("encoding", input, attachedFile, None))
                 /\ outcome' = "started"
                 /\ UNCHANGED <<messages, input, attachedFile>>
            ELSE SendContinue(input, attachedFile, None, TRUE, sends)

\* Enter in the text box or a click on the send button (both disabled while
\* loading; Enter also works on a blank input).
UserSend ==
    /\ Usable /\ ~ControlsDisabled
    /\ handleSend
    /\ UNCHANGED <<regVars, selectedPersonaId, sStore, pending, isModalOpen,
                   editingPersona, chatRef, cNow>>
    /\ UNCHANGED <<editVars, videoVars, histVars, transVars, savedAtLoad>>

\* handleSend is invoked while a send is outstanding.
SendWhileLoading ==
    /\ pending = {} /\ loading
    /\ handleSend
    /\ UNCHANGED <<regVars, selectedPersonaId, sStore, pending, isModalOpen,
                   editingPersona, chatRef, cNow>>
    /\ UNCHANGED <<editVars, videoVars, histVars, transVars, savedAtLoad>>

\* fileToGenerativePart resolves (its promise has no reject path).
EncodeDone ==
    /\ \E i \in 1..Len(sends) :
          /\ sends[i].pc = "encoding"
          /\ SendContinue(sends[i].input, sends[i].file, error, loading, RemoveAt(sends, i))
    /\ UNCHANGED <<regVars, selectedPersonaId, sStore, pending, isModalOpen,
                   editingPersona, chatRef, cNow>>
    /\ UNCHANGED <<editVars, videoVars, histVars, transVars, savedAtLoad>>

\* The FileReader fails: onloadend runs with reader.result null, the split
\* throws inside the event handler and the promise is never settled, so the
\* handleSend call stays suspended.
EncodeFails ==
    /\ \E i \in 1..Len(sends) :
          /\ sends[i].pc = "encoding"
          /\ sends' = [sends EXCEPT ![i].pc = "unsettled"]
    /\ UNCHANGED <<regVars, selectedPersonaId, sStore, pending, isModalOpen,
                   editingPersona, messages, input, attachedFile, loading, error,
                   chatRef, outcome, cNow>>
    /\ UNCHANGED <<editVars, videoVars, histVars, transVars, savedAtLoad>>

\* sendMessageStream resolves: the empty model message is appended.
StreamOpens ==
    /\ \E i \in 1..Len(sends) :
          /\ sends[i].pc = "opening"
          /\ sends' = [sends EXCEPT ![i].pc = "streaming"]
    /\ messages' = Append(messages, Message("model", <<TextPart(<< >>)>>))
    /\ UNCHANGED <<regVars, selectedPersonaId, sStore, pending, isModalOpen,
                   editingPersona, input, attachedFile, loading, error, chatRef,
                   outcome, cNow>>
    /\ UNCHANGED <<editVars, videoVars, histVars, transVars, savedAtLoad>>

StreamError == <<"An error occurred while getting a response.">>

\* The catch and finally blocks of handleSend.
SendCaught(i, how) ==
    /\ error' = Some(StreamError)
    /\ messages' = DropLast(messages)
    /\ loading' = FALSE
    /\ sends' = RemoveAt(sends, i)
    /\ outcome' = how
    /\ UNCHANGED <<regVars, selectedPersonaId, sStore, pending, isModalOpen,
                   editingPersona, input, attachedFile, chatRef, cNow>>
    /\ UNCHANGED <<editVars, videoVars, histVars, transVars, savedAtLoad>>

\* sendMessageStream rejects.
StreamOpenFails ==
    \E i \in 1..Len(sends) :
       /\ sends[i].pc = "opening"
       /\ SendCaught(i, "openFailed")

\* The stream delivers a chunk.
StreamChunk ==
    /\ \E i \in 1..Len(sends) :
          /\ sends[i].pc = "streaming"
          /\ sends[i].n < MaxChunks
          /\ LET chunkText == Chunks[(sends[i].n % Len(Chunks)) + 1]
             IN  /\ sends' = [sends EXCEPT ![i].fullResponse = @ \o chunkText,
                                           ![i].n = @ + 1]
                 /\ messages' = ApplyChunk(messages, chunkText)
    /\ UNCHANGED <<regVars, selectedPersonaId, sStore, pending, isModalOpen,
                   editingPersona, input, attachedFile, loading, error, chatRef,
                   outcome, cNow>>
    /\ UNCHANGED <<editVars, videoVars, histVars, transVars, savedAtLoad>>

\* The stream ends: the finally block.
StreamEnds ==
    /\ \E i \in 1..Len(sends) :
          /\ sends[i].pc = "streaming"
          /\ sends' = RemoveAt(sends, i)
    /\ loading' = FALSE
    /\ outcome' = "completed"
    /\ UNCHANGED <<regVars, selectedPersonaId, sStore, pending, isModalOpen,
                   editingPersona, messages, input, attachedFile, error, chatRef, cNow>>
    /\ UNCHANGED <<editVars, videoVars, histVars, transVars, savedAtLoad>>

\* The stream throws while it is iterated.
StreamFails ==
    \E i \in 1..Len(sends) :
       /\ sends[i].pc = "streaming"
       /\ SendCaught(i, "failed")

(***************************************************************************)
(* Chatbot.transcribeAudio, started by handleFileChange with an audio      *)
(* file.                                                                   *)
(***************************************************************************)

\* The longest input (in tokens) a transcription is started on.
MaxInput == 3

\* response.text of the transcription request.
Transcriptions == { << >>, <<"yo">>, <<"yo", " ">> }

TranscribeError == <<"Failed to transcribe audio. Please try again.">>

\* The merge without .trim().
MergeTranscriptionUntrimmed(prev, text) ==
    IF prev # << >> THEN prev \o <<" ">> \o text ELSE text

\* setInput(prev => (prev ? prev + ' ' + transcription : transcription).trim())
MergeTranscription(prev, text) ==
    Trim(IF prev # << >> THEN prev \o <<" ">> \o text ELSE text)

\* handleFileChange with an audio file: the attachment and the error are
\* cleared, transcribeAudio sets isTranscribing and the error and suspends.
TranscribeStart ==
    /\ Usable /\ ~ControlsDisabled
    /\ Len(input) <= MaxInput
    /\ attachedFile' = None
    /\ error' = None
    /\ isTranscribing' = TRUE
    /\ transcribing' = transcribing + 1
    /\ transcription' = None
    /\ UNCHANGED <<regVars, selectedPersonaId, sStore, pending, isModalOpen,
                   editingPersona, messages, input, loading, chatRef, sends, outcome,
                   cNow>>
    /\ UNCHANGED <<editVars, videoVars, histVars, savedAtLoad>>

\* generateContent resolves: the text is merged into the input; finally.
TranscribeReturns ==
    /\ transcribing > 0
    /\ \E t \in Transcriptions :
          /\ transcription' = Some(t)
          /\ input' = MergeTranscription(input, t)
    /\ isTranscribing' = FALSE
    /\ transcribing' = transcribing - 1
    /\ UNCHANGED <<regVars, selectedPersonaId, sStore, pending, isModalOpen,
                   editingPersona, messages, attachedFile, loading, error, chatRef,
                   sends, outcome, cNow>>
    /\ UNCHANGED <<editVars, videoVars, histVars, savedAtLoad>>

\* generateContent rejects: catch and finally.
TranscribeFails ==
    /\ transcribing > 0
    /\ error' = Some(TranscribeError)
    /\ UNCHANGED transcription
    /\ isTranscribing' = FALSE
    /\ transcribing' = transcribing - 1
    /\ UNCHANGED <<regVars, selectedPersonaId, sStore, pending, isModalOpen,
                   editingPersona, messages, input, attachedFile, loading, chatRef,
                   sends, outcome, cNow>>
    /\ UNCHANGED <<editVars, videoVars, histVars, savedAtLoad>>

\* The chat with the default persona, sends and transcriptions.
TranscribeNext ==
    \/ RunEffects
    \/ SetInput
    \/ handleFileChange
    \/ UserSend
    \/ EncodeDone
    \/ StreamOpens
    \/ StreamOpenFails
    \/ StreamChunk
    \/ StreamEnds
    \/ StreamFails
    \/ TranscribeStart
    \/ TranscribeReturns
    \/ TranscribeFails

\* The chat with the default persona and sends whose attachment may fail
\* to be read.
SendNext ==
    \/ RunEffects
    \/ SetInput
    \/ handleFileChange
    \/ UserSend
    \/ EncodeDone
    \/ EncodeFails
    \/ StreamOpens
    \/ StreamOpenFails
    \/ StreamChunk
    \/ StreamEnds
    \/ StreamFails

(***************************************************************************)
(* The page load: the stored persona map and the stored selection, and the *)
(* effects of the commits that follow the mount.                           *)
(***************************************************************************)

\* A persona saved by an earlier session.
StoredPersona(d) == WithId(d, CustomId(0))

\* The values 'nexus-custom-personas' may hold when the page loads.
StartupPStores ==
    { PStoreAbsent, PStoreCorrupt, PStoreJson(EmptyMap) }
    \cup { PStoreJson([k \in {CustomId(0)} |-> StoredPersona(d)]) : d \in PersonaData }

\* The values 'selectedPersonaId' may hold when the page loads: none, a
\* built-in id, the id of the stored persona, an id that names no persona.
StartupSelected ==
    { None, Some(CustomId(0)), Some("custom-gone") } \cup { Some(id) : id \in DefaultIds }

ChatStartupInit == ChatInitTracking(StartupSelected, TRUE)

StartupNext == RunEffects

\* The persona management of the chat page, without sends.
PersonasNext ==
    \/ RunEffects
    \/ SelectPersona
    \/ handleOpenCreateModal
    \/ handleOpenEditModal
    \/ ModalClose
    \/ handleSaveOrUpdatePersona
    \/ handleDeletePersona

Next ==
    \/ RunEffects
    \/ SelectPersona
    \/ handleOpenCreateModal
    \/ handleOpenEditModal
    \/ ModalClose
    \/ handleSaveOrUpdatePersona
    \/ handleDeletePersona
    \/ SetInput
    \/ handleFileChange
    \/ UserSend
    \/ SendWhileLoading
    \/ EncodeDone
    \/ StreamOpens
    \/ StreamOpenFails
    \/ StreamChunk
    \/ StreamEnds
    \/ StreamFails

\* C20: generateVideo returns a media reference only from a completed
\* operation with a download reference whose fetch gave an ok response; when
\* the completed operation has no download reference, or the fetch is
\* rejected or gives a response that is not ok, generateVideo throws and
\* the caller shows the error, no video, and stops loading.
C20_VideoFailures ==
    /\ [](vUrl # None => (vOperation.done /\ vOperation.uri /\ vResponse = "ok"))
    /\ [][ ( \/ /\ VideoRequestReturns \/ VideoPollReturns
                /\ vOperation'.done /\ ~vOperation'.uri
             \/ /\ VideoFetchReturns
                /\ vResponse' # "ok" )
           => /\ vError' = Some(<<"Failed to communicate with the video generation service.">>)
              /\ vUrl' = None
              /\ ~vLoading'
              /\ vpc' = "idle"
         ]_vars

\* A generation ended at a fetch whose response was not ok, after one poll.
C20_Witness ==
    /\ vpc = "idle"
    /\ vPolls = 1
    /\ vOperation.done /\ vOperation.uri
    /\ vResponse = "notok"
    /\ vError # None
    /\ vUrl = None

\* A generation ended at a completed operation without a download link.
C20_WitnessNoLink ==
    /\ vpc = "idle"
    /\ vOperation.done /\ ~vOperation.uri
    /\ vError = Some(<<"Failed to communicate with the video generation service.">>)
    /\ vUrl = None

\* C30: a generation whose operation reports done after finitely many polls
\* ends with loading reset; and every report that the operation is not
\* done, whatever the number of polls so far, leaves generateVideo
\* unsettled (loading set, no error, no url) waiting for the timer, after
\* which it polls again.
C30_VideoSettles ==
    /\ vLoading ~> ~vLoading
    /\ [][ ((VideoRequestReturns \/ VideoPollReturns) /\ ~vOperation'.done) =>
              /\ vpc' = "sleeping"
              /\ vLoading' /\ vError' = None /\ vUrl' = None ]_vars
    /\ [][ VideoTimerFires => (vpc' = "polling" /\ vLoading') ]_vars

\* A generation settled with a video after the operation was reported not
\* done by the request and by all polls but the last.
C30_Witness ==
    /\ vPolls = MaxPolls
    /\ vProgressCalls = MaxPolls
    /\ ~vLoading
    /\ vUrl # None

(***************************************************************************)
(* Claims about the persona registry.                                      *)
(***************************************************************************)
\* C7 as stated: deletePersona on a built-in id and savePersona with a
\* built-in id leave the built-in entries of the registry unchanged: every
\* built-in id maps to its defaultPersonas entry.
C7_BuiltinsUnchanged ==
    \A id \in DefaultIds : id \in DOMAIN personas /\ personas[id] = defaultPersonas[id]

C16_WitnessBuiltin ==
    /\ pCall = Call("delete", "Nexus")
    /\ "Nexus" \in DOMAIN personas

\* The registry a reload would build from the store.
Reloaded == loadPersonas(defaultPersonas, pStore).personas

\* C17 as stated: no built-in id is a key of the persisted map, and once
\* the registry is loaded a reload reproduces the in-memory registry: the
\* built-ins merged with the stored customs equal the map in memory.
C17_ReloadReproduces ==
    /\ \A k \in DOMAIN pStore.val : k \notin DefaultIds
    /\ pMounted => Reloaded = personas

(***************************************************************************)
(* Claims about the history.                                               *)
(***************************************************************************)
Descending(ids) == \A i \in 1..Len(ids) : \A j \in (i + 1)..Len(ids) : ids[i] > ids[j]

C10_ClearedStaysCleared ==
    /\ \A i \in 1..Len(hStore.val) : hStore.val[i].id \notin hClearedIds
    /\ \A i \in 1..Len(hHistory) : hHistory[i].id \notin hClearedIds

(***************************************************************************)
(* Claims about editImage.                                                 *)
(***************************************************************************)
IsImage(part) == part.kind = "image"
IsText(part) == part.kind = "text"
IsNonEmptyText(part) == part.kind = "text" /\ part.text # << >>

\* The texts of a sequence of text parts joined by newlines.
RECURSIVE JoinLines(_)
JoinLines(ps) ==
    IF ps = << >> THEN << >>
    ELSE IF Len(ps) = 1 THEN ps[1].text
    ELSE ps[1].text \o <<NL>> \o JoinLines(Tail(ps))

FirstImage(parts) ==
    parts[CHOOSE i \in 1..Len(parts) :
             /\ IsImage(parts[i])
             /\ \A j \in 1..(i - 1) : ~IsImage(parts[j])]

HasImage(parts) == \E i \in 1..Len(parts) : IsImage(parts[i])

\* A nullable text read as a string: null reads as the empty string.
TextOf(opt) == IF opt = None THEN << >> ELSE opt[1]

EditAnswered == editResponse.kind = "candidates" /\ HasImage(editResponse.parts)

\* C9 as stated: with at least one image part in the response, the result
\* image is the first image part and the result text is the newline-joined
\* concatenation of all text parts in order.
C9_AllTextParts ==
    EditAnswered =>
        /\ editOutcome.status = "ok"
        /\ editOutcome.imageUrl =
              Some(DataUrl(FirstImage(editResponse.parts).mimeType,
                           FirstImage(editResponse.parts).data))
        /\ TextOf(editOutcome.text) =
              JoinLines(SelectSeq(editResponse.parts, IsText))

\* C9 amended: with at least one image part in the response, the result
\* image is the first image part and the result text is the newline-joined
\* concatenation, in order, of the text parts that are not empty (null when
\* there is none).
C9_EditTieBreak ==
    EditAnswered =>
        /\ editOutcome.status = "ok"
        /\ editOutcome.imageUrl =
              Some(DataUrl(FirstImage(editResponse.parts).mimeType,
                           FirstImage(editResponse.parts).data))
        /\ editOutcome.text =
              (IF SelectSeq(editResponse.parts, IsNonEmptyText) = << >>
               THEN None
               ELSE Some(JoinLines(SelectSeq(editResponse.parts, IsNonEmptyText))))

\* The response [text "note", image A, image B] gave image A and text "note".
C9_Witness ==
    /\ editResponse.kind = "candidates"
    /\ editResponse.parts = << TextPart(<<"note">>), ImagePart("image/png", "A"),
                               ImagePart("image/jpeg", "B") >>
    /\ editOutcome.imageUrl = Some(<<"data:", "image/png", ";base64,", "A">>)
    /\ editOutcome.text = Some(<<"note">>)

\* The text of a response: its non-empty text parts joined by newlines.
ResponseText(resp) == JoinLines(SelectSeq(resp.parts, IsNonEmptyText))

\* C19: editImage never returns a result without an image, and it fails in
\* both no-image cases with distinct failures: a response with text and no
\* image fails with that text quoted in the message, a response with
\* neither image nor text (no candidate, no part, or only empty text) fails
\* with the opaque no-image message.
C19_EditFailures ==
    /\ editOutcome.status = "ok" =>
          /\ editOutcome.imageUrl # None
          /\ EditAnswered
    /\ (editResponse.kind \in {"candidates", "nocandidates"} /\ ~HasImage(editResponse.parts)) =>
          /\ editOutcome.status = "error"
          /\ editOutcome.imageUrl = None
          /\ editOutcome.message =
                (IF ResponseText(editResponse) # << >>
                 THEN <<"The model responded with text but no image: \"">>
                      \o ResponseText(editResponse) \o <<"\"">>
                 ELSE <<"No image was returned from the editing service.">>)

\* The response [text "note", text "more"] failed with both texts quoted.
C19_Witness ==
    /\ editResponse.kind = "candidates"
    /\ editResponse.parts = << TextPart(<<"note">>), TextPart(<<"more">>) >>
    /\ editOutcome.status = "error"
    /\ editOutcome.message = <<"The model responded with text but no image: \"",
                               "note", NL, "more", "\"">>

\* A response without any part failed with the opaque message.
C19_WitnessOpaque ==
    /\ editResponse.kind = "candidates"
    /\ editResponse.parts = << >>
    /\ editOutcome.message = <<"No image was returned from the editing service.">>

(***************************************************************************)
(* Claims about generateVideo.                                             *)
(***************************************************************************)
\* C4: generateVideo goes on to the download (and resolves) only with an
\* operation whose done is true, having called onProgress once per status
\* poll; while it waits for a poll it has called onProgress once more than it
\* has polled.
C4_PollTermination ==
    /\ (vpc \in {"fetching", "blob"} \/ vUrl # None) =>
          /\ vOperation.done
          /\ vProgressCalls = vPolls
    /\ vpc \in {"sleeping", "polling"} =>
          /\ ~vOperation.done
          /\ vProgressCalls = vPolls + 1
    /\ vpc = "requesting" => vProgressCalls = 0 /\ vPolls = 0

\* A generation resolved after done was first seen on the second poll, and
\* onProgress had been called twice.
C4_Witness ==
    /\ vUrl # None
    /\ vpc = "idle"
    /\ vPolls = 2
    /\ vProgressCalls = 2
    /\ vMessageIndex = 2

\* A generation resolved with the first operation already done: no poll and
\* no onProgress call.
C4_WitnessZero ==
    /\ vUrl # None
    /\ vPolls = 0
    /\ vProgressCalls = 0

(***************************************************************************)
(* Specifications.                                                         *)
(***************************************************************************)
\* C12 as stated, for the history: when the write of the history fails
\* after a successful generation or edit, the result is displayed and no
\* error banner is set.
C12_WriteFailureAbsorbed ==
    [][ HistRemoteSettlesStoreFull => (hResult' # None /\ hError' = None) ]_vars

\* C18 as stated, for the history: a stored value that is corrupt or does
\* not parse is read as absent: the component keeps running, and until a
\* generation succeeds its history is the empty default.
C18_CorruptReadAsAbsent ==
    /\ hpc # "crashed"
    /\ (hStore.kind \in {"corrupt", "null"} /\ hpc # "mount" /\ hGenerated = << >>)
          => hHistory = << >>

(***************************************************************************)
(* Claims about the chat.                                                  *)
(***************************************************************************)
\* C1: while a send is outstanding (loading is true), invoking handleSend
\* again appends no user message and opens no stream: the transcript and the
\* outstanding send are as they were, and at most one send is ever
\* outstanding, so the chunks of two streams cannot interleave.
C1_SingleFlight ==
    /\ [](Len(sends) <= 1 /\ (loading <=> sends # << >>))
    /\ [][SendWhileLoading => (messages' = messages /\ sends' = sends)]_vars

\* handleSend was invoked, and ignored, while a stream had delivered one
\* chunk.
C1_Witness ==
    /\ loading
    /\ outcome = "ignored"
    /\ Len(sends) = 1
    /\ sends[1].pc = "streaming"
    /\ sends[1].n = 1

LastMessage(ms) == ms[Len(ms)]

\* C2 as stated: applying a chunk leaves the transcript length and every
\* message but the last unchanged, and when the stream of a send completes
\* the trailing message is a model message whose text is the concatenation
\* of the chunks that stream delivered, in delivery order.
C2_StreamReassembly ==
    [][ /\ StreamChunk =>
             /\ Len(messages') = Len(messages)
             /\ \A k \in 1..(Len(messages) - 1) : messages'[k] = messages[k]
        /\ StreamEnds =>
             /\ messages' # << >>
             /\ LastMessage(messages') = Message("model", <<TextPart(sends[1].fullResponse)>>)
      ]_vars

\* C3 as stated: when the stream of a send fails after the empty model
\* message was appended, the transcript afterwards ends at the user message
\* of that send and is one message shorter.
C3_RollbackToUserMessage ==
    [][ StreamFails =>
             /\ Len(messages') = Len(messages) - 1
             /\ messages' # << >>
             /\ LastMessage(messages') =
                   Message("user", UserParts(sends[1].file, sends[1].input))
      ]_vars

C8_AlwaysReseeds ==
    [][ ("config" \in pending /\ RunEffects) =>
             /\ messages' = WelcomeTranscript(personaConfig)
             /\ chatRef' = Some(ChatCreate(personaConfig))
      ]_vars

\* C8, amended: the session-init effect of every change of the effective
\* persona either leaves a transcript of exactly the new persona's welcome
\* message, a chat handle newly created for that persona and no error, or
\* (ai.chats.create threw) an empty transcript, the initialization error and
\* the chat handle it found.
C8_ReseedsOrFails ==
    [][ ("config" \in pending /\ RunEffects) =>
             \/ /\ error' = None
                /\ messages' = WelcomeTranscript(personaConfig)
                /\ chatRef' = Some(ChatCreate(personaConfig))
             \/ /\ error' = Some(InitError)
                /\ messages' = << >>
                /\ chatRef' = chatRef
      ]_vars

\* After a completed exchange the persona was changed to Friendly: the
\* transcript of the exchange is gone, the welcome message of Friendly and a
\* chat handle for Friendly are in its place.
C8_Witness ==
    /\ outcome = "completed"
    /\ pending = {}
    /\ selectedPersonaId = "Friendly"
    /\ messages = WelcomeTranscript(personas["Friendly"])
    /\ chatRef = Some(ChatCreate(personas["Friendly"]))

\* C11 as stated, for the chat: when a send fails (the stream cannot be
\* opened or throws while it is read), the input text and the attached file
\* afterwards are the ones the send was triggered with.
C11_FailureKeepsInput ==
    [][ (StreamFails \/ StreamOpenFails) =>
             /\ input' = sends[1].input
             /\ attachedFile' = sends[1].file
      ]_vars

\* C13: every message of the transcript has at least one part, in every
\* state.
C13_PartsNonEmpty ==
    \A i \in 1..Len(messages) : messages[i].parts # << >>

\* The transcript holds a user message sent with an attachment and a blank
\* input: its only part is the encoded file.
C13_Witness ==
    \E i \in 1..Len(messages) :
       /\ messages[i].role = "user"
       /\ messages[i].parts = <<fileToGenerativePart([type |-> "image/png", bytes |-> "PNG"])>>

\* C14: a handleSend call with blank input and no attachment changes
\* neither the transcript, the loading flag, the error banner, the input,
\* the attachment, the chat handle nor the outstanding sends.
C14_BlankSendIsNoOp ==
    [][ ((UserSend \/ SendWhileLoading) /\ Trim(input) = << >> /\ attachedFile = None) =>
             UNCHANGED <<messages, loading, error, input, attachedFile, chatRef, sends>>
      ]_vars

\* After a failed send the user typed a blank and pressed Enter: the call
\* was ignored and the error of the failed send is still shown.
C14_Witness ==
    /\ outcome = "ignored"
    /\ ~loading
    /\ input = <<" ">>
    /\ attachedFile = None
    /\ error = Some(StreamError)

\* The Failed state of the session: empty transcript, initialization error.
Failed == messages = << >> /\ error = Some(InitError)

\* C15 as stated: once session creation has thrown, the session stays
\* Failed through every step that neither changes the selected persona or
\* the persona map nor runs the effects.
C15_FailedUntilReselect ==
    [][ (Failed /\ ~RunEffects
           /\ selectedPersonaId' = selectedPersonaId /\ personas' = personas)
        => Failed' ]_vars

\* C21 as stated: no step of a transcription changes the transcript, and
\* when the request returns a text the input becomes that text if it was
\* empty and otherwise the old input, a space and the text.
C21_TranscriptionAppends ==
    [][ /\ (TranscribeStart \/ TranscribeReturns \/ TranscribeFails) =>
              UNCHANGED <<messages, sends, loading, chatRef>>
        /\ TranscribeReturns =>
              input' = (IF input = << >> THEN transcription'[1]
                        ELSE input \o <<" ">> \o transcription'[1])
      ]_vars

\* C21, amended: no step of a transcription changes the transcript, and
\* when the request returns a text the input becomes that text if it was
\* empty and otherwise the old input, a space and the text, in both cases
\* with leading and trailing whitespace removed.
C21_TranscriptionMergesTrimmed ==
    [][ /\ (TranscribeStart \/ TranscribeReturns \/ TranscribeFails) =>
              UNCHANGED <<messages, sends, loading, chatRef>>
        /\ TranscribeReturns =>
              /\ UNCHANGED <<attachedFile, error>>
              /\ input' = Trim(IF input = << >> THEN transcription'[1]
                               ELSE input \o <<" ">> \o transcription'[1])
      ]_vars

\* A transcription returned "yo " while the input was "hi" and the
\* transcript held a completed exchange: the input is "hi yo".
C21_Witness ==
    /\ transcribing = 0
    /\ transcription = Some(<<"yo", " ">>)
    /\ input = <<"hi", " ", "yo">>
    /\ Len(messages) = 3

\* C22: at most one transcribeAudio call is suspended, isTranscribing is set
\* exactly while one is, no send is outstanding while one is, and neither
\* a transcription nor a send starts while one is.
C22_OneTranscription ==
    /\ [](/\ transcribing <= 1
          /\ isTranscribing <=> transcribing = 1
          /\ transcribing = 1 => (sends = << >> /\ ~loading))
    /\ [][ (TranscribeStart \/ UserSend) => transcribing = 0 ]_vars

\* A transcription is outstanding after a completed exchange, with a text
\* in the input.
C22_Witness ==
    /\ transcribing = 1
    /\ isTranscribing
    /\ outcome = "completed"
    /\ input = <<"hi">>

\* C23 as stated: when a stream was opened on another chat handle than the
\* current one (the persona changed during the send) and the transcript is
\* the reseeded one, a chunk or the failure of that stream leaves it as it
\* is: the welcome message of the current persona.
C23_OldStreamIsolated ==
    [][ ( /\ StreamChunk \/ StreamFails
          /\ pending = {}
          /\ sends[1].chat # chatRef
          /\ messages = WelcomeTranscript(personaConfig) )
        => messages' = messages ]_vars

\* C24 as stated: when the selection found at page load names a persona of
\* the registry loaded from the store, then once the effects after the
\* mount have settled that persona is selected and the persisted selection
\* is the one found.
C24_StartupRestores ==
    ( /\ pending = {}
      /\ savedAtLoad # None
      /\ savedAtLoad[1] \in DOMAIN loadPersonas(defaultPersonas, pStore).personas )
    => /\ selectedPersonaId = savedAtLoad[1]
       /\ sStore = savedAtLoad

\* The commit of a persona creation: savePersona(id) and
\* setSelectedPersonaId(id) are rendered, their effects have not run.
CreatedCommit(id) ==
    /\ pCall = Call("save", id)
    /\ {"personas", "selected"} \subseteq pending
    /\ selectedPersonaId = id

\* C25 as stated: after the creation of a custom persona the effects settle
\* in a state where it is the selected persona, the persisted selection is
\* its id and (unless ai.chats.create threw) the transcript is its welcome
\* message.
C25_CreatedBecomesActive ==
    \A id \in CustomIds :
       CreatedCommit(id) ~>
          ( /\ pending = {}
            /\ selectedPersonaId = id
            /\ sStore = Some(id)
            /\ error = None => messages = WelcomeTranscript(personas[id]) )

\* The commit of the deletion of the selected persona: the selected id is
\* no key of the persona map, the effects have not run.
DeletedCommit ==
    /\ pCall.op = "delete"
    /\ "personas" \in pending
    /\ selectedPersonaId \notin DOMAIN personas

C26_OpenFailureKeepsUserMessage ==
    [][ ( /\ StreamOpenFails
          /\ messages # << >>
          /\ LastMessage(messages) = Message("user", UserParts(sends[1].file, sends[1].input)) )
        => messages' = messages ]_vars

\* C28 as stated: every stream a send requests while the effects are settled
\* is requested from the chat handle created for the current persona, also
\* after ai.chats.create threw for it.
C28_NoStaleHandle ==
    [][ ( /\ UserSend \/ EncodeDone
          /\ pending = {}
          /\ sends' # << >>
          /\ LastMessage(sends').pc = "opening" )
        => LastMessage(sends').chat = Some(ChatCreate(personaConfig)) ]_vars

\* C29 as stated: whenever a send is outstanding (loading is set), loading
\* is eventually reset.
C29_SendReturns == loading ~> ~loading

\* Each specification starts its own component from every initial state it
\* has and the other components from one.
InitEdit == EditInit /\ VideoInit /\ HistIdle /\ RegInitWith({PStoreAbsent}) /\ ChatIdle
InitVideo == EditInit /\ VideoInit /\ HistIdle /\ RegInitWith({PStoreAbsent}) /\ ChatIdle
InitHistory == EditInit /\ VideoInit /\ HistInit /\ RegInitWith({PStoreAbsent}) /\ ChatIdle
InitHistoryFaults == EditInit /\ VideoInit /\ HistInitFaults /\ RegInitWith({PStoreAbsent}) /\ ChatIdle
InitTranscribe == EditInit /\ VideoInit /\ HistIdle /\ RegInitWith({PStoreAbsent}) /\ ChatIdle
InitStartup == EditInit /\ VideoInit /\ HistIdle /\ RegInitWith(StartupPStores) /\ ChatStartupInit
InitPersonas == EditInit /\ VideoInit /\ HistIdle /\ RegInitWith(StartupPStores) /\ ChatInitWith({None, Some(CustomId(0))})
InitRegistry == EditInit /\ VideoInit /\ HistIdle /\ RegInit /\ ChatIdle
Init == EditInit /\ VideoInit /\ HistIdle /\ RegInitWith(ChatPStores) /\ ChatInit

SpecEdit == InitEdit /\ [][EditCall]_vars

SpecVideo == InitVideo /\ [][VideoNext]_vars

SpecHistory == InitHistory /\ [][HistNext]_vars

SpecHistoryFaults == InitHistoryFaults /\ [][HistNextFaults]_vars

SpecTranscribe == InitTranscribe /\ [][TranscribeNext]_vars

SpecStartup == InitStartup /\ [][StartupNext]_vars

SpecPersonas == InitPersonas /\ [][PersonasNext]_vars

\* React runs the effects of every commit.
SpecPersonasLive == SpecPersonas /\ WF_vars(RunEffects)

\* React runs the effects of every commit, the FileReader finishes, the
\* stream request settles, and an open stream ends or fails.
SpecSendLive ==
    /\ InitTranscribe /\ [][SendNext]_vars
    /\ WF_vars(RunEffects)
    /\ WF_vars(EncodeDone \/ EncodeFails)
    /\ WF_vars(StreamOpens \/ StreamOpenFails)
    /\ WF_vars(StreamEnds \/ StreamFails)

\* Every remote call of generateVideo settles and the timer fires.
SpecVideoLive ==
    /\ SpecVideo
    /\ WF_vars(VideoRequestReturns \/ VideoRequestThrows)
    /\ WF_vars(VideoTimerFires)
    /\ WF_vars(VideoPollReturns \/ VideoPollThrows)
    /\ WF_vars(VideoFetchReturns)
    /\ WF_vars(VideoBlobReturns)

SpecRegistry == InitRegistry /\ [][RegNext]_vars

Spec == Init /\ [][Next]_vars

====
